---- MODULE Spec2Model ----
(***************************************************************************)
(* Threshold-based rejection evaluation of SDIM_logits.                    *)
(*                                                                         *)
(*   eval_adv.py         attack_run_rejection_policy   (prog = "adv")      *)
(*   eval_robustness.py  inference_rejection           (prog = "rob")      *)
(*   eval_robustness.py  the body of the severity loop, lines 103-137,     *)
(*                       taken as a unit on its inputs (prog = "slice")    *)
(*                                                                         *)
(* A score is an integer of 0..MaxScore, a score vector ("row") a function *)
(* from the classes 0..NClasses-1 to scores.  The model (network), the     *)
(* attack oracle and the data sets are inputs: every value they can return *)
(* is drawn with \E.  A rate is the pair <<numerator, denominator>> of the *)
(* Python true division that computes it; a division by zero raises        *)
(* ZeroDivisionError, as in Python.  Scores are finite numbers (no NaN).   *)
(***************************************************************************)
EXTENDS Integers, Sequences, FiniteSets, TLC

\* ------------------------------------------------------------------ bounds
NClasses == 2       \* hps.n_classes
MaxScore == 1       \* scores are 0..MaxScore
NBatchTest == 50    \* hps.n_batch_test of the calibration and test loaders
MaxBatches == 2     \* batches a calibration loader yields at most
MaxTest == 1        \* samples of an evaluated (test or corruption) batch at most
MaxData == 3        \* samples of a corruption array at most
MaxTypes == 1       \* corruption files found by get_c_dataset at most

\* ------------------------------------------------------- program constants
interval == 10000
NSeverity == 5
Pct1 == <<1, 100>>  \* 0.01
Pct2 == <<2, 100>>  \* 0.02
\* hps.percentile values tried: 0.01 (the default), 0.1, 0.5
Percentiles == {<<1, 100>>, <<1, 10>>, <<1, 2>>}

Classes == 0 .. (NClasses - 1)
Scores == 0 .. MaxScore
Rows == [Classes -> Scores]
\* no exception so far; an exception is <<its name, the line that raises it>>
NoErr == <<"none", 0>>
\* a rate not computed yet; a computed rate is <<numerator, denominator>>
Unset == <<>>

VARIABLES
    prog,             \* which program runs
    pc,               \* position in the program
    err,              \* the exception that ended the run, or NoErr
    n_batch_test,     \* hps.n_batch_test
    percentile,       \* hps.percentile, <<numerator, denominator>>
    \* calibration (both programs)
    label_id,         \* the class being calibrated
    batch_id,         \* batches the calibration loader of label_id has yielded
    more,             \* that loader may yield another batch
    ll,               \* model(x) of the batch being collected
    in_ll_list,
    threshold_list, threshold_list1, threshold_list2,
    \* eval_adv.py evaluation
    x, y, correct_idx, n_eval, n_successful_adv, n_rejected_adv1, n_rejected_adv2,
    logits, preds, success_idx, rej_idx1, rej_idx2,
    reject_rate1, reject_rate2, success_adv_rate,
    \* eval_robustness.py evaluation
    n_types, thresholds, data_len, severity, n_seen,
    n_correct, n_false, n_reject, values, pred, target,
    confidence_idx, reject_idx,
    n, acc, false_rate, reject_rate, acc_remain

calVars == <<label_id, batch_id, more, ll, in_ll_list,
             threshold_list, threshold_list1, threshold_list2>>
advVars == <<x, y, correct_idx, n_eval, n_successful_adv, n_rejected_adv1,
             n_rejected_adv2, logits, preds, success_idx, rej_idx1, rej_idx2,
             reject_rate1, reject_rate2, success_adv_rate>>
sliceVars == <<thresholds, data_len, severity, n_seen, n_correct, n_false,
               n_reject, values, pred, target, confidence_idx, reject_idx,
               n, acc, false_rate, reject_rate, acc_remain>>
hpsVars == <<prog, n_batch_test, percentile>>
vars == <<pc, err, hpsVars, calVars, advVars, n_types, sliceVars>>

\* ----------------------------------------------------------------- helpers
Rep(v, k) == [i \in 1 .. k |-> v]

Min2(a, b) == IF a <= b THEN a ELSE b
Max2(a, b) == IF a >= b THEN a ELSE b

\* torch max over dim 1: the largest score of a row
RowMax(row) == CHOOSE v \in Scores :
    (\E c \in Classes : row[c] = v) /\ (\A c \in Classes : row[c] <= v)

\* torch argmax over dim 1: the index of the first maximal value
ArgMax(row) == CHOOSE c \in Classes :
    row[c] = RowMax(row) /\ (\A d \in Classes : d < c => row[d] < row[c])

RECURSIVE SelectIdx(_, _)
\* boolean-mask indexing t[mask]: the entries of t whose mask entry is TRUE, in order
SelectIdx(t, mask) ==
    IF t = <<>> THEN <<>>
    ELSE (IF Head(mask) THEN <<Head(t)>> ELSE <<>>) \o SelectIdx(Tail(t), Tail(mask))

\* .sum() of a boolean tensor
CountTrue(mask) == Cardinality({i \in DOMAIN mask : mask[i]})

Count(s, v) == Cardinality({i \in DOMAIN s : s[i] = v})

SeqMin(s) == CHOOSE v \in {s[i] : i \in DOMAIN s} : \A i \in DOMAIN s : v <= s[i]
SeqMax(s) == CHOOSE v \in {s[i] : i \in DOMAIN s} : \A i \in DOMAIN s : v >= s[i]

RECURSIVE SortFrom(_, _, _)
\* the entries of s that lie in v..hi, in ascending order
SortFrom(s, v, hi) ==
    IF v > hi THEN <<>> ELSE Rep(v, Count(s, v)) \o SortFrom(s, v + 1, hi)

RECURSIVE SortDown(_, _, _)
SortDown(s, v, lo) ==
    IF v < lo THEN <<>> ELSE Rep(v, Count(s, v)) \o SortDown(s, v - 1, lo)

\* sorted(s, reverse=True): descending
sortedDesc(s) == IF s = <<>> THEN <<>> ELSE SortDown(s, SeqMax(s), SeqMin(s))

\* Python sorted() on a list of scores: ascending
sorted(s) == IF s = <<>> THEN <<>> ELSE SortFrom(s, SeqMin(s), SeqMax(s))

\* round(percentile * len(in_ll_list)) in place of int()
ThreshIdxRound(p, s) == (2 * p[1] * Len(s) + p[2]) \div (2 * p[2])

\* int(percentile * len(in_ll_list))
ThreshIdx(p, s) == (p[1] * Len(s)) \div p[2]

\* sorted(in_ll_list)[thresh_idx]; Python raises IndexError past the end
IndexOk(p, s) == ThreshIdx(p, s) < Len(s)
Thresh(p, s) == sorted(s)[ThreshIdx(p, s) + 1]

\* a mask that keeps every sample, correctly classified or not
CorrectIdxAll(scores, labels) == [i \in DOMAIN scores |-> TRUE]

\* correct_idx = ll.argmax(dim=1) == y, where every y of the loader is label_id
CorrectIdx(scores, labels) ==
    [i \in DOMAIN scores |-> ArgMax(scores[i]) = labels[i]]

\* list(ll[correct_idx][:, label_id])
CorrectScores(scores, c) ==
    LET kept == SelectIdx(scores, CorrectIdx(scores, Rep(c, Len(scores))))
    IN  [i \in DOMAIN kept |-> kept[i][c]]

\* The batches a calibration loader of batch size B is made to yield: a full
\* batch of B samples that all score alike, or a last batch of one or two samples.
CalBatches(B) ==
    {Rep(r, B) : r \in Rows}
    \cup {<<r>> : r \in Rows}
    \cup {<<rr[1], rr[2]>> : rr \in Rows \X Rows}

\* ------------------------------------------------------------- calibration
advIdle ==
    /\ x = <<>> /\ y = <<>> /\ correct_idx = <<>>
    /\ n_eval = 0 /\ n_successful_adv = 0
    /\ n_rejected_adv1 = 0 /\ n_rejected_adv2 = 0
    /\ logits = <<>> /\ preds = <<>>
    /\ success_idx = <<>> /\ rej_idx1 = <<>> /\ rej_idx2 = <<>>
    /\ reject_rate1 = Unset /\ reject_rate2 = Unset /\ success_adv_rate = Unset

sliceIdle ==
    /\ thresholds = <<>> /\ data_len = 0 /\ severity = 0 /\ n_seen = 0
    /\ n_correct = 0 /\ n_false = 0 /\ n_reject = 0
    /\ values = <<>> /\ pred = <<>> /\ target = <<>>
    /\ confidence_idx = <<>> /\ reject_idx = <<>>
    /\ n = 0 /\ acc = Unset /\ false_rate = Unset /\ reject_rate = Unset
    /\ acc_remain = Unset

calInit ==
    /\ label_id = -1 /\ batch_id = 0 /\ more = FALSE /\ ll = <<>>
    /\ in_ll_list = <<>>
    /\ threshold_list = <<>> /\ threshold_list1 = <<>> /\ threshold_list2 = <<>>

\* for label_id in range(hps.n_classes): a new loader and an empty in_ll_list
CalStart ==
    /\ pc = "cal_next"
    /\ label_id + 1 < NClasses
    /\ label_id' = label_id + 1
    /\ in_ll_list' = <<>>
    /\ batch_id' = 0
    /\ more' = TRUE
    /\ pc' = "cal_loop"
    /\ UNCHANGED <<err, hpsVars, ll, threshold_list, threshold_list1,
                   threshold_list2, advVars, n_types, sliceVars>>

\* the loader yields a batch (x, y) and ll = model(x)
CalForward ==
    /\ pc = "cal_loop"
    /\ more
    /\ batch_id < MaxBatches
    /\ \E b \in CalBatches(n_batch_test) :
         /\ ll' = b
         /\ more' = (Len(b) = n_batch_test)
    /\ pc' = "cal_batch"
    /\ UNCHANGED <<err, hpsVars, label_id, batch_id, in_ll_list, threshold_list,
                   threshold_list1, threshold_list2, advVars, n_types, sliceVars>>

\* in_ll_list += the scores at label_id of the correctly classified samples
CalCollect ==
    /\ pc = "cal_batch"
    /\ in_ll_list' = in_ll_list \o CorrectScores(ll, label_id)
    /\ ll' = <<>>
    /\ batch_id' = batch_id + 1
    /\ pc' = "cal_loop"
    /\ UNCHANGED <<err, hpsVars, label_id, more, threshold_list,
                   threshold_list1, threshold_list2, advVars, n_types, sliceVars>>

\* eval_robustness.py: the threshold of class label_id at hps.percentile
RobThresh ==
    /\ pc = "cal_loop"
    /\ IF IndexOk(percentile, in_ll_list)
       THEN /\ threshold_list' = Append(threshold_list, Thresh(percentile, in_ll_list))
            /\ pc' = "cal_next"
            /\ err' = err
       ELSE /\ pc' = "crashed"
            /\ err' = <<"IndexError", 90>>
            /\ UNCHANGED threshold_list
    /\ more' = FALSE
    /\ UNCHANGED <<hpsVars, label_id, batch_id, ll, in_ll_list,
                   threshold_list1, threshold_list2, advVars, n_types, sliceVars>>

\* eval_adv.py: the 1st and 2nd percentile thresholds of class label_id
AdvThresh ==
    /\ pc = "cal_loop"
    /\ IF IndexOk(Pct1, in_ll_list) /\ IndexOk(Pct2, in_ll_list)
       THEN /\ threshold_list1' = Append(threshold_list1, Thresh(Pct1, in_ll_list))
            /\ threshold_list2' = Append(threshold_list2, Thresh(Pct2, in_ll_list))
            /\ pc' = "cal_next"
            /\ err' = err
       ELSE /\ pc' = "crashed"
            /\ err' = <<"IndexError", IF IndexOk(Pct1, in_ll_list) THEN 79 ELSE 77>>
            /\ UNCHANGED <<threshold_list1, threshold_list2>>
    /\ more' = FALSE
    /\ UNCHANGED <<hpsVars, label_id, batch_id, ll, in_ll_list,
                   threshold_list, advVars, n_types, sliceVars>>

\* ------------------------------------------- eval_robustness.py, whole run
InitRob ==
    /\ prog = "rob" /\ pc = "cal_next" /\ err = NoErr
    /\ n_batch_test = NBatchTest
    /\ percentile \in Percentiles
    /\ calInit /\ advIdle /\ sliceIdle
    /\ n_types = 0

RobCalStart == prog = "rob" /\ CalStart
RobCalForward == prog = "rob" /\ CalForward
RobCalCollect == prog = "rob" /\ CalCollect
RobCalThresh == prog = "rob" /\ RobThresh

\* for corruption_id, (corruption_type, data, labels) in get_c_dataset():
\* get_c_dataset yields 3-tuples (name, array, labels); the target list has two
\* targets, so the first tuple raises ValueError.  np.load(file) gets the file
\* name without its directory and raises FileNotFoundError unless the working
\* directory holds a file of that name.  With no file the loop body never runs
\* and "return acc, reject_rate, acc_remain" reads unbound locals.
RobCorruptionLoop ==
    /\ prog = "rob"
    /\ pc = "cal_next"
    /\ label_id + 1 = NClasses
    /\ \E k \in 0 .. MaxTypes :
         /\ n_types' = k
         /\ IF k = 0
            THEN err' = <<"UnboundLocalError", 140>>
            ELSE \/ err' = <<"FileNotFoundError", 35>>
                 \/ err' = <<"ValueError", 100>>
    /\ in_ll_list' = <<>>
    /\ batch_id' = 0
    /\ pc' = "crashed"
    /\ UNCHANGED <<hpsVars, label_id, more, ll, threshold_list,
                   threshold_list1, threshold_list2, advVars, sliceVars>>

NextRob ==
    \/ RobCalStart
    \/ RobCalForward
    \/ RobCalCollect
    \/ RobCalThresh
    \/ RobCorruptionLoop

SpecRob == InitRob /\ [][NextRob]_vars

\* ------------------------------------------------ eval_adv.py, whole run
InitAdv ==
    /\ prog = "adv" /\ pc = "cal_next" /\ err = NoErr
    /\ n_batch_test = NBatchTest
    /\ percentile = Pct1
    /\ calInit /\ advIdle /\ sliceIdle
    /\ n_types = 0

AdvCalStart == prog = "adv" /\ CalStart
AdvCalForward == prog = "adv" /\ CalForward
AdvCalCollect == prog = "adv" /\ CalCollect
AdvCalThresh == prog = "adv" /\ AdvThresh

\* thresholds1 = torch.tensor(threshold_list1): thresholds1[c] for class c
thresholds1 == threshold_list1
thresholds2 == threshold_list2

\* the counters start at zero and the test loader is built; the calibration
\* loader, its position and in_ll_list are not read again and are dropped
AdvEvalInit ==
    /\ prog = "adv"
    /\ pc = "cal_next"
    /\ label_id + 1 = NClasses
    /\ n_eval' = 0
    /\ n_successful_adv' = 0
    /\ n_rejected_adv1' = 0
    /\ n_rejected_adv2' = 0
    /\ in_ll_list' = <<>>
    /\ batch_id' = 0
    /\ pc' = "test_loop"
    /\ UNCHANGED <<err, hpsVars, label_id, more, ll, threshold_list,
                   threshold_list1, threshold_list2, x, y, correct_idx, logits,
                   preds, success_idx, rej_idx1, rej_idx2, reject_rate1,
                   reject_rate2, success_adv_rate, n_types, sliceVars>>

\* the first batch (x, y) of the test loader; a sample of x is written as the
\* score vector the model gives it
AdvFetch ==
    /\ prog = "adv"
    /\ pc = "test_loop"
    /\ \E k \in 1 .. MaxTest :
         \E b \in [1 .. k -> Rows \X Classes] :
            /\ x' = [i \in 1 .. k |-> b[i][1]]
            /\ y' = [i \in 1 .. k |-> b[i][2]]
    /\ pc' = "clean_eval"
    /\ UNCHANGED <<err, hpsVars, calVars, correct_idx, n_eval, n_successful_adv,
                   n_rejected_adv1, n_rejected_adv2, logits, preds, success_idx,
                   rej_idx1, rej_idx2, reject_rate1, reject_rate2,
                   success_adv_rate, n_types, sliceVars>>

\* an empty test set: the loop body never runs
AdvNoBatch ==
    /\ prog = "adv"
    /\ pc = "test_loop"
    /\ pc' = "rates"
    /\ UNCHANGED <<err, hpsVars, calVars, advVars, n_types, sliceVars>>

\* output = model(x); pred = output.argmax(dim=1); correct_idx = pred == y;
\* x, y = x[correct_idx], y[correct_idx]; n_eval += correct_idx.sum().item()
AdvCleanEval ==
    /\ prog = "adv"
    /\ pc = "clean_eval"
    /\ LET mask == CorrectIdx(x, y)
       IN  /\ correct_idx' = mask
           /\ y' = SelectIdx(y, mask)
           /\ n_eval' = n_eval + CountTrue(mask)
    /\ x' = <<>>
    /\ pc' = "attack"
    /\ UNCHANGED <<err, hpsVars, calVars, n_successful_adv, n_rejected_adv1,
                   n_rejected_adv2, logits, preds, success_idx, rej_idx1,
                   rej_idx2, reject_rate1, reject_rate2, success_adv_rate,
                   n_types, sliceVars>>

\* adv_x = attack.generate(x); output = model(adv_x);
\* logits, preds = output.max(dim=1).  The oracle returns one sample per kept
\* input (none for an empty x); the model may score it in any way.
AdvAttack ==
    /\ prog = "adv"
    /\ pc = "attack"
    /\ \E output \in [1 .. Len(y) -> Rows] :
         /\ logits' = [i \in 1 .. Len(y) |-> RowMax(output[i])]
         /\ preds' = [i \in 1 .. Len(y) |-> ArgMax(output[i])]
    /\ pc' = "aggregate"
    /\ UNCHANGED <<err, hpsVars, calVars, x, y, correct_idx, n_eval,
                   n_successful_adv, n_rejected_adv1, n_rejected_adv2,
                   success_idx, rej_idx1, rej_idx2, reject_rate1, reject_rate2,
                   success_adv_rate, n_types, sliceVars>>

\* success_idx = (preds != y)
SuccessIdx(p, lab) == [i \in DOMAIN p |-> p[i] # lab[i]]

\* rej_idx = logits < thresholds[preds]
RejIdx(lg, p, thr) == [i \in DOMAIN lg |-> lg[i] < thr[p[i] + 1]]

\* the three counters of the batch, then break
AdvAggregate ==
    /\ prog = "adv"
    /\ pc = "aggregate"
    /\ success_idx' = SuccessIdx(preds, y)
    /\ n_successful_adv' = n_successful_adv + CountTrue(SuccessIdx(preds, y))
    /\ rej_idx1' = RejIdx(logits, preds, thresholds1)
    /\ n_rejected_adv1' = n_rejected_adv1 + CountTrue(RejIdx(logits, preds, thresholds1))
    /\ rej_idx2' = RejIdx(logits, preds, thresholds2)
    /\ n_rejected_adv2' = n_rejected_adv2 + CountTrue(RejIdx(logits, preds, thresholds2))
    /\ pc' = "rates"
    /\ UNCHANGED <<err, hpsVars, calVars, x, y, correct_idx, n_eval, logits,
                   preds, reject_rate1, reject_rate2, success_adv_rate, n_types,
                   sliceVars>>

\* reject_rate1, reject_rate2 = n_rejected_adv1, n_rejected_adv2 / n_successful_adv;
\* success_adv_rate = n_successful_adv / n_eval
AdvRates ==
    /\ prog = "adv"
    /\ pc = "rates"
    /\ IF n_successful_adv = 0
       THEN /\ pc' = "crashed"
            /\ err' = <<"ZeroDivisionError", 141>>
            /\ UNCHANGED <<reject_rate1, reject_rate2, success_adv_rate>>
       ELSE /\ reject_rate1' = <<n_rejected_adv1, n_successful_adv>>
            /\ reject_rate2' = <<n_rejected_adv2, n_successful_adv>>
            /\ IF n_eval = 0
               THEN /\ pc' = "crashed"
                    /\ err' = <<"ZeroDivisionError", 143>>
                    /\ UNCHANGED success_adv_rate
               ELSE /\ success_adv_rate' = <<n_successful_adv, n_eval>>
                    /\ pc' = "done"
                    /\ err' = err
    /\ UNCHANGED <<hpsVars, calVars, x, y, correct_idx, n_eval, n_successful_adv,
                   n_rejected_adv1, n_rejected_adv2, logits, preds, success_idx,
                   rej_idx1, rej_idx2, n_types, sliceVars>>

NextAdv ==
    \/ AdvCalStart
    \/ AdvCalForward
    \/ AdvCalCollect
    \/ AdvCalThresh
    \/ AdvEvalInit
    \/ AdvFetch
    \/ AdvNoBatch
    \/ AdvCleanEval
    \/ AdvAttack
    \/ AdvAggregate
    \/ AdvRates

SpecAdv == InitAdv /\ [][NextAdv]_vars

\* ------------------- eval_robustness.py, the severity loop of one corruption
\* The threshold vectors calibration can return: the entry of class c is the
\* score at c of a sample whose argmax is c.
CalThresholds ==
    {t \in [1 .. NClasses -> Scores] :
        \A c \in Classes : \E r \in Rows : ArgMax(r) = c /\ r[c] = t[c + 1]}

\* len(data[severity * interval : (severity + 1) * interval]) for len(data) = d
SliceLen(d, sev) == Min2(interval, Max2(0, d - sev * interval))

\* The state at line 103 for one corruption type: thresholds calibrated, data
\* and labels of data_len samples.  Line 100 raises before it gets here
\* (RobCorruptionLoop); the loop body is taken on its inputs.
InitSlice ==
    /\ prog = "slice" /\ pc = "sev_start" /\ err = NoErr
    /\ n_batch_test \in 1 .. MaxTest
    /\ percentile = Pct1
    /\ calInit /\ advIdle
    /\ n_types = 1
    /\ thresholds \in CalThresholds
    /\ data_len \in 0 .. MaxData
    /\ severity = 0 /\ n_seen = 0
    /\ n_correct = 0 /\ n_false = 0 /\ n_reject = 0
    /\ values = <<>> /\ pred = <<>> /\ target = <<>>
    /\ confidence_idx = <<>> /\ reject_idx = <<>>
    /\ n = 0 /\ acc = Unset /\ false_rate = Unset /\ reject_rate = Unset
    /\ acc_remain = Unset

\* for severity in range(5): the slice, its loader and the three counters
SliceStart ==
    /\ prog = "slice"
    /\ pc = "sev_start"
    /\ severity < NSeverity
    /\ n' = SliceLen(data_len, severity)
    /\ n_seen' = 0
    /\ n_correct' = 0
    /\ n_false' = 0
    /\ n_reject' = 0
    /\ pc' = "sl_loop"
    /\ UNCHANGED <<err, hpsVars, calVars, advVars, n_types, thresholds, data_len,
                   severity, values, pred, target, confidence_idx, reject_idx,
                   acc, false_rate, reject_rate, acc_remain>>

\* values > thresholds[pred]: a score equal to its threshold is in no mask
ConfidenceIdxGt(vals, p, thr) == [i \in DOMAIN vals |-> vals[i] > thr[p[i] + 1]]

\* confidence_idx = values >= thresholds[pred]
ConfidenceIdx(vals, p, thr) == [i \in DOMAIN vals |-> vals[i] >= thr[p[i] + 1]]

\* values <= thresholds[pred]: a score equal to its threshold is rejected
RejectIdxLe(vals, p, thr) == [i \in DOMAIN vals |-> vals[i] <= thr[p[i] + 1]]

\* reject_idx = values < thresholds[pred]
RejectIdx(vals, p, thr) == [i \in DOMAIN vals |-> vals[i] < thr[p[i] + 1]]

\* the next batch (x, target); log_lik = sdim(x); values, pred = log_lik.max(dim=1);
\* the two masks
SliceForward ==
    /\ prog = "slice"
    /\ pc = "sl_loop"
    /\ n_seen < n
    /\ LET k == Min2(n_batch_test, n - n_seen)
       IN  \E b \in [1 .. k -> Rows \X Classes] :
             LET vals == [i \in 1 .. k |-> RowMax(b[i][1])]
                 p == [i \in 1 .. k |-> ArgMax(b[i][1])]
             IN  /\ values' = vals
                 /\ pred' = p
                 /\ target' = [i \in 1 .. k |-> b[i][2]]
                 /\ confidence_idx' = ConfidenceIdx(vals, p, thresholds)
                 /\ reject_idx' = RejectIdx(vals, p, thresholds)
    /\ pc' = "sl_count"
    /\ UNCHANGED <<err, hpsVars, calVars, advVars, n_types, thresholds, data_len,
                   severity, n_seen, n_correct, n_false, n_reject, n, acc,
                   false_rate, reject_rate, acc_remain>>

\* pred[confidence_idx].eq(target[confidence_idx]).sum()
EqCount(a, b) == Cardinality({i \in DOMAIN a : a[i] = b[i]})
\* (pred[confidence_idx] != target[confidence_idx]).sum()
NeCount(a, b) == Cardinality({i \in DOMAIN a : a[i] # b[i]})

\* n_correct, n_false and n_reject take the batch; its tensors are not read again
SliceCount ==
    /\ prog = "slice"
    /\ pc = "sl_count"
    /\ n_correct' = n_correct + EqCount(SelectIdx(pred, confidence_idx),
                                        SelectIdx(target, confidence_idx))
    /\ n_false' = n_false + NeCount(SelectIdx(pred, confidence_idx),
                                    SelectIdx(target, confidence_idx))
    /\ n_reject' = n_reject + CountTrue(reject_idx)
    /\ n_seen' = n_seen + Len(values)
    /\ values' = <<>> /\ pred' = <<>> /\ target' = <<>>
    /\ confidence_idx' = <<>> /\ reject_idx' = <<>>
    /\ pc' = "sl_loop"
    /\ UNCHANGED <<err, hpsVars, calVars, advVars, n_types, thresholds, data_len,
                   severity, n, acc, false_rate, reject_rate, acc_remain>>

\* n = len(test_loader.dataset); acc, false_rate, reject_rate = counters / n;
\* acc_remain = acc / (acc + false_rate), which is n_correct / (n_correct + n_false)
SliceStats ==
    /\ prog = "slice"
    /\ pc = "sl_loop"
    /\ n_seen = n
    /\ IF n = 0
       THEN /\ pc' = "crashed"
            /\ err' = <<"ZeroDivisionError", 130>>
            /\ UNCHANGED <<acc, false_rate, reject_rate, acc_remain, severity>>
       ELSE /\ acc' = <<n_correct, n>>
            /\ false_rate' = <<n_false, n>>
            /\ reject_rate' = <<n_reject, n>>
            /\ IF n_correct + n_false = 0
               THEN /\ pc' = "crashed"
                    /\ err' = <<"ZeroDivisionError", 134>>
                    /\ UNCHANGED <<acc_remain, severity>>
               ELSE /\ acc_remain' = <<n_correct, n_correct + n_false>>
                    /\ severity' = severity + 1
                    /\ pc' = "sev_start"
                    /\ err' = err
    /\ UNCHANGED <<hpsVars, calVars, advVars, n_types, thresholds, data_len,
                   n_seen, n_correct, n_false, n_reject, values, pred, target,
                   confidence_idx, reject_idx, n>>

NextSlice ==
    \/ SliceStart
    \/ SliceForward
    \/ SliceCount
    \/ SliceStats

SpecSlice == InitSlice /\ [][NextSlice]_vars

\* ------------------------------------------------------------- all three
Init == InitAdv \/ InitRob \/ InitSlice
Next == NextAdv \/ NextRob \/ NextSlice
Spec == Init /\ [][Next]_vars

\* ================================================================ properties
\* a rate whose division has a zero denominator: undefined (NaN), not a number
IsUndefined(r) == r # Unset /\ r[2] = 0
\* a rate that is the number zero
IsZero(r) == r # Unset /\ r[2] # 0 /\ r[1] = 0
\* a rate that is the number one
IsOne(r) == r # Unset /\ r[2] # 0 /\ r[1] = r[2]

\* the run has ended
Ended == pc \in {"done", "crashed"}

\* ---------------------------------------------------------------------- C1
\* C1: in attack_run_rejection_policy the rejected counters never exceed the
\* count of successful adversarial examples:
\* n_rejected_adv1 <= n_successful_adv and n_rejected_adv2 <= n_successful_adv.
C1_RejectedWithinSuccessful ==
    prog = "adv" =>
        /\ n_rejected_adv1 <= n_successful_adv
        /\ n_rejected_adv2 <= n_successful_adv

\* ---------------------------------------------------------------------- C2
\* C2: a run of the adversarial pipeline that ends with n_eval > 0 and
\* n_successful_adv = 0 does not crash: success_adv_rate is 0 and both reject
\* rates are reported as undefined.
C2_NoSuccessReported ==
    (prog = "adv" /\ Ended /\ n_eval > 0 /\ n_successful_adv = 0) =>
        /\ pc = "done"
        /\ err = NoErr
        /\ IsZero(success_adv_rate)
        /\ IsUndefined(reject_rate1)
        /\ IsUndefined(reject_rate2)

\* ---------------------------------------------------------------------- C3
ExactlyOne(a, b, c) == Cardinality({k \in 1 .. 3 : <<a, b, c>>[k]}) = 1

\* a slice's statistics have been taken (or its acc_remain has raised)
SliceEnded ==
    \/ pc = "sev_start" /\ severity > 0
    \/ pc = "crashed" /\ err = <<"ZeroDivisionError", 134>>

\* C3: in the corruption pipeline every sample of a batch is in exactly one of
\* accepted-correct, accepted-incorrect and rejected; after each batch
\* n_correct + n_false + n_reject is the number of samples processed so far in
\* the slice, and at the end of the slice it is n, the slice size.
C3_Partition ==
    prog = "slice" =>
        /\ n_correct + n_false + n_reject = n_seen
        /\ pc = "sl_count" =>
             \A i \in DOMAIN values :
                ExactlyOne(confidence_idx[i] /\ pred[i] = target[i],
                           confidence_idx[i] /\ pred[i] # target[i],
                           reject_idx[i])
        /\ SliceEnded => n_correct + n_false + n_reject = n

\* a slice of MaxData samples ended with samples of each of the three kinds
C3_Witness ==
    /\ prog = "slice" /\ pc = "sev_start" /\ severity > 0
    /\ n = MaxData
    /\ n_correct > 0 /\ n_false > 0 /\ n_reject > 0

IsKth(s, k, t) ==
    /\ \E i \in DOMAIN s : s[i] = t
    /\ Cardinality({i \in DOMAIN s : s[i] < t}) <= k
    /\ k < Cardinality({i \in DOMAIN s : s[i] <= t})

\* the j-th smallest element of a set of indices
IthOf(S, j) == CHOOSE i \in S : Cardinality({h \in S : h < i}) = j - 1

\* the indices of the samples of a batch whose argmax is class c
ArgmaxIs(scores, c) ==
    {i \in DOMAIN scores :
        /\ \A d \in Classes : scores[i][d] <= scores[i][c]
        /\ \A d \in Classes : d < c => scores[i][d] < scores[i][c]}

\* E2E scenario A, in tenths: S_0 = [0.1, ..., 1.0], percentile 0.1
ScenarioA == <<1, 2, 3, 4, 5, 6, 7, 8, 9, 10>>

\* C5: calibration gives one threshold per class; threshold[c] is the element
\* at 0-based index floor(percentile * |S_c|) of S_c sorted ascending, and S_c
\* holds the score at c of exactly the samples of label c whose argmax is c.
\* S_0 = [0.1 .. 1.0] with percentile 0.1 gives 0.2.
C5_Step ==
    /\ Thresh(<<1, 10>>, ScenarioA) = 2
    /\ (prog = "rob" /\ pc = "cal_batch") =>
          LET keep == ArgmaxIs(ll, label_id)
              m == Len(in_ll_list)
          IN  /\ Len(in_ll_list') = m + Cardinality(keep)
              /\ \A j \in 1 .. m : in_ll_list'[j] = in_ll_list[j]
              /\ \A j \in 1 .. Cardinality(keep) :
                    in_ll_list'[m + j] = ll[IthOf(keep, j)][label_id]
    /\ (prog = "rob" /\ pc = "cal_loop" /\ pc' = "cal_next") =>
          /\ Len(threshold_list') = label_id + 1
          /\ \A c \in 1 .. label_id : threshold_list'[c] = threshold_list[c]
          /\ IsKth(in_ll_list,
                   (percentile[1] * Len(in_ll_list)) \div percentile[2],
                   threshold_list'[label_id + 1])
    /\ (prog = "rob" /\ pc = "cal_next" /\ pc' = "crashed") =>
          Len(threshold_list') = NClasses

C6_NoIndexError == err[1] # "IndexError"

\* ---------------------------------------------------------------------- C7
\* C7: in the corruption pipeline a slice whose samples are all rejected
\* reports acc = 0, false_rate = 0, reject_rate = 1 and an undefined
\* acc_remain instead of aborting.
C7_AllRejectedReported ==
    (prog = "slice" /\ (SliceEnded \/ pc = "crashed")
                    /\ n > 0 /\ n_seen = n /\ n_correct = 0 /\ n_false = 0) =>
        /\ err = NoErr
        /\ IsZero(acc)
        /\ IsZero(false_rate)
        /\ IsOne(reject_rate)
        /\ IsUndefined(acc_remain)

\* ---------------------------------------------------------------------- C8
\* C8: n_eval counts exactly the test samples the clean model classifies
\* correctly, only those go to the attack oracle and into the adversarial
\* counters, and n_successful_adv <= n_eval.
C8_Step ==
    /\ (prog = "adv" /\ pc = "clean_eval") =>
          LET keep == {i \in DOMAIN x : i \in ArgmaxIs(x, y[i])}
          IN  /\ n_eval' = n_eval + Cardinality(keep)
              /\ Len(y') = Cardinality(keep)
              /\ \A j \in 1 .. Cardinality(keep) : y'[j] = y[IthOf(keep, j)]
    /\ (prog = "adv" /\ pc = "attack") =>
          Len(logits') = n_eval /\ Len(preds') = n_eval
    /\ prog' = "adv" =>
          /\ n_successful_adv' <= n_eval'
          /\ Len(success_idx') <= n_eval'

C8_CleanCorrectOnly == [][C8_Step]_vars

\* a clean-correct sample was attacked with success
C8_Witness ==
    /\ prog = "adv" /\ pc = "done"
    /\ n_eval > 0 /\ n_successful_adv = n_eval

\* ---------------------------------------------------------------------- C9
\* percentiles in (0,1) the monotonicity is tried at
PctGrid == {<<1, 100>>, <<2, 100>>, <<5, 100>>, <<10, 100>>, <<25, 100>>,
            <<50, 100>>, <<75, 100>>, <<90, 100>>, <<99, 100>>}

\* C9: for a non-empty S_c the threshold does not decrease when the percentile
\* grows; in the adversarial pipeline the 1st-percentile threshold of a class
\* is <= its 2nd-percentile threshold.
C9_Monotone ==
    prog = "adv" =>
        /\ Len(threshold_list1) = Len(threshold_list2)
        /\ \A c \in DOMAIN threshold_list1 :
              threshold_list1[c] <= threshold_list2[c]
        /\ (pc \in {"cal_loop", "cal_next"} /\ in_ll_list # <<>>) =>
              \A p \in PctGrid, q \in PctGrid :
                 p[1] <= q[1] =>
                    Thresh(p, in_ll_list) <= Thresh(q, in_ll_list)

\* a class whose 1st-percentile threshold is below its 2nd-percentile threshold
C9_Witness ==
    /\ prog = "adv" /\ pc = "cal_next" /\ label_id >= 0
    /\ Len(threshold_list1) = label_id + 1
    /\ threshold_list1[label_id + 1] < threshold_list2[label_id + 1]

\* --------------------------------------------------------------------- C10
\* C10: given a corruption type from the provider, the corruption pipeline
\* evaluates its five severity slices and then terminates.
C10_FiveSlices ==
    (prog = "rob" /\ Ended /\ Len(threshold_list) = NClasses
                  /\ n_types >= 1 /\ err[1] # "FileNotFoundError") =>
        /\ err = NoErr
        /\ severity = NSeverity

====
